---- MODULE Spec2Model ----
(***************************************************************************)
(* Webhook bridge (src/main.py): a FastAPI application that receives a     *)
(* webhook and relays it to WEBHOOK_URL, either through one long-lived     *)
(* Playwright page (POST /webhook) or through an httpx client              *)
(* (POST /webhook/direct).                                                 *)
(*                                                                         *)
(* The model follows the coroutines of main.py.  One action is one run of  *)
(* a coroutine from one await to the next: the event loop is single        *)
(* threaded, so the code between two awaits is atomic and the awaits are   *)
(* the only points where another coroutine can run.  What the browser, the *)
(* target server and the client send, and whether the target is reachable *)
(* at the moment a call goes out to it, are inputs, drawn with \E.         *)
(***************************************************************************)
EXTENDS Integers, Sequences, FiniteSets, TLC

\* Number of requests the server receives in one run.
MaxRequests == 2

Requests == 1..MaxRequests

\* main.py:27, the configured forwarding target.
WEBHOOK_URL == "https://n8n.produkmastah.com/webhook-test/3df77d1c-6227-41ee-b4ea-32b8d02f6405"

VARIABLES
    lspc,           \* position of the lifespan coroutine (main.py:35-56)
    playwright,     \* lifespan's local `playwright`: "unbound" or "Playwright"
    browser,        \* global `browser` (main.py:31): "None" or "Browser"
    page,           \* global `page` (main.py:32): "None" or "Page"
    startCalls,     \* completed async_playwright().start() calls
    launchCalls,    \* completed chromium.launch() calls
    closeCalls,     \* browser.close() calls made
    stopCalls,      \* playwright.stop() calls made
    startupFailed,  \* a startup step raised (the except branch was entered)
    lifespanRaised, \* the lifespan coroutine ended by raising
    everReady,      \* the lifespan has reached its yield
    pageNavBy,      \* request whose navigation the shared page last committed (0: none)
    pc,             \* per request: position of its handler coroutine
    ep,             \* per request: "webhook" or "direct" ("" before arrival)
    body,           \* per request: the request body
    hist,           \* per request: what its handler did to page and target
    resp            \* per request: the HTTP response sent

lifeVars == <<lspc, playwright, browser, page, startCalls, launchCalls,
              closeCalls, stopCalls, startupFailed, lifespanRaised, everReady>>
reqVars  == <<pc, ep, body, hist, resp>>
vars     == <<lifeVars, pageNavBy, reqVars>>

(***************************************************************************)
(* Lifespan, main.py:34-56.                                                *)
(***************************************************************************)

\* The try block of lifespan (main.py:40-46): the next statement runs only
\* when the awaited call returned; a raise goes to the except clause.
AfterStartupStepSwallow(ok, next) == next
AfterStartupStep(ok, next) == IF ok THEN next ELSE "except"

\* main.py:41  playwright = await async_playwright().start()
LifespanStart ==
    /\ lspc = "start"
    /\ \E ok \in BOOLEAN :
        /\ lspc' = AfterStartupStep(ok, "launch")
        /\ playwright' = IF ok THEN "Playwright" ELSE playwright
        /\ startCalls' = IF ok THEN startCalls + 1 ELSE startCalls
    /\ UNCHANGED <<browser, page, launchCalls, closeCalls, stopCalls,
                   startupFailed, lifespanRaised, everReady>>
    /\ UNCHANGED <<pageNavBy, reqVars>>

\* main.py:42  browser = await playwright.chromium.launch(headless=True)
\* (on an unbound `playwright` the statement raises)
LifespanLaunch ==
    /\ lspc = "launch"
    /\ \E ok \in BOOLEAN :
        LET done == ok /\ playwright # "unbound" IN
        /\ lspc' = AfterStartupStep(done, "newpage")
        /\ browser' = IF done THEN "Browser" ELSE browser
        /\ launchCalls' = IF done THEN launchCalls + 1 ELSE launchCalls
    /\ UNCHANGED <<playwright, page, startCalls, closeCalls, stopCalls,
                   startupFailed, lifespanRaised, everReady>>
    /\ UNCHANGED <<pageNavBy, reqVars>>

\* main.py:43-46  page = await browser.new_page(); log; yield
\* (on browser None the statement raises)
LifespanNewPage ==
    /\ lspc = "newpage"
    /\ \E ok \in BOOLEAN :
        LET done == ok /\ browser # "None" IN
        /\ lspc' = AfterStartupStep(done, "yield")
        /\ page' = IF done THEN "Page" ELSE page
        /\ everReady' = (everReady \/ AfterStartupStep(done, "yield") = "yield")
    /\ UNCHANGED <<playwright, browser, startCalls, launchCalls, closeCalls,
                   stopCalls, startupFailed, lifespanRaised>>
    /\ UNCHANGED <<pageNavBy, reqVars>>

\* main.py:48-50  except Exception: log the error and re-raise; the finally
\* clause runs with the exception pending.
LifespanExcept ==
    /\ lspc = "except"
    /\ startupFailed' = TRUE
    /\ lspc' = "finally"
    /\ UNCHANGED <<playwright, browser, page, startCalls, launchCalls,
                   closeCalls, stopCalls, lifespanRaised, everReady>>
    /\ UNCHANGED <<pageNavBy, reqVars>>

\* The server stops: the lifespan is resumed after its yield (main.py:46)
\* and falls into the finally clause.  uvicorn (main.py:217) resumes it once
\* the handlers in flight have finished.
LifespanShutdown ==
    /\ lspc = "yield"
    /\ \A r \in Requests : pc[r] \in {"idle", "done"}
    /\ lspc' = "finally"
    /\ UNCHANGED <<playwright, browser, page, startCalls, launchCalls,
                   closeCalls, stopCalls, startupFailed, lifespanRaised, everReady>>
    /\ UNCHANGED <<pageNavBy, reqVars>>

\* main.py:52-54  if browser: await browser.close()
\* A raise from close() leaves the finally clause at once.
LifespanCloseBrowser ==
    /\ lspc = "finally"
    /\ IF browser # "None"
       THEN \E ok \in BOOLEAN :
              /\ closeCalls' = closeCalls + 1
              /\ lspc' = IF ok THEN "finally_stop" ELSE "done"
              /\ lifespanRaised' = IF ok THEN lifespanRaised ELSE TRUE
       ELSE /\ lspc' = "finally_stop"
            /\ UNCHANGED <<closeCalls, lifespanRaised>>
    /\ UNCHANGED <<playwright, browser, page, startCalls, launchCalls,
                   stopCalls, startupFailed, everReady>>
    /\ UNCHANGED <<pageNavBy, reqVars>>

\* main.py:55-56  if 'playwright' in locals(): await playwright.stop()
\* then the pending exception of main.py:50, if any, propagates.
LifespanStopDriver ==
    /\ lspc = "finally_stop"
    /\ IF playwright # "unbound"
       THEN \E ok \in BOOLEAN :
              /\ stopCalls' = stopCalls + 1
              /\ lifespanRaised' = (startupFailed \/ ~ok)
       ELSE /\ lifespanRaised' = startupFailed
            /\ UNCHANGED stopCalls
    /\ lspc' = "done"
    /\ UNCHANGED <<playwright, browser, page, startCalls, launchCalls,
                   closeCalls, startupFailed, everReady>>
    /\ UNCHANGED <<pageNavBy, reqVars>>

Lifespan ==
    \/ LifespanStart
    \/ LifespanLaunch
    \/ LifespanNewPage
    \/ LifespanExcept
    \/ LifespanShutdown
    \/ LifespanCloseBrowser
    \/ LifespanStopDriver

(***************************************************************************)
(* Request bodies and request.json(), main.py:99 and main.py:188.          *)
(***************************************************************************)

\* Bodies a client may send: a JSON object, the other JSON values, text
\* that is not JSON, and bytes that are not text in any encoding json.loads
\* detects.
Bodies == { "{\"a\": 1}", "42", "\"text\"", "[1, 2]", "null", "true",
            "{invalid", "{\"a\": \"\\xff\"}" }

Returned(v)  == [raised |-> FALSE, value |-> v]
Raised(exc)  == [raised |-> TRUE, exc |-> exc]
Exc(type, msg) == [type |-> type, msg |-> msg]

\* await request.json(): json.loads of the body bytes.  Returns the Python
\* value (its type and content) or raises.
RequestJson(b) ==
    CASE b = "{\"a\": 1}"  -> Returned([type |-> "dict", v |-> "a:1"])
      [] b = "42"            -> Returned([type |-> "int", v |-> "42"])
      [] b = "\"text\""      -> Returned([type |-> "str", v |-> "text"])
      [] b = "[1, 2]"        -> Returned([type |-> "list", v |-> "1,2"])
      [] b = "null"          -> Returned([type |-> "NoneType", v |-> "None"])
      [] b = "true"          -> Returned([type |-> "bool", v |-> "True"])
      [] b = "{invalid"      -> Raised(Exc("JSONDecodeError",
                                  "Expecting property name enclosed in double quotes"))
      [] OTHER               -> Raised(Exc("UnicodeDecodeError",
                                  "'utf-8' codec can't decode byte 0xff"))

\* isinstance(payload, dict), main.py:103
IsDict(payload) == payload.type = "dict"

\* raise HTTPException(status_code=..., detail=...)
\* (str() of it is "<status_code>: <detail>")
HTTPException(code, detail) ==
    [type |-> "HTTPException", status_code |-> code, detail |-> detail,
     msg |-> ToString(code) \o ": " \o detail]

\* What the client receives when a handler ends with HTTPException.
ErrorResponse(exc) == [http |-> exc.status_code, detail |-> exc.detail]

NoResp == [http |-> 0]

(***************************************************************************)
(* The target server and the browser, as the handlers see them.            *)
(***************************************************************************)

\* Responses the target may send: a status code and a body that is empty,
\* JSON, or neither.
TargetStatuses == {200, 500}
TargetBodies   == {"", "{\"ok\": true}", "<html>"}
TargetResponses == [status : TargetStatuses, content : TargetBodies]

StatusText(code) == IF code = 200 THEN "OK" ELSE "Internal Server Error"

JNull == [type |-> "NoneType", v |-> "None"]

\* response.json(), in the page (main.py:153) and in httpx (main.py:207).
ResponseJson(content) ==
    IF content = "{\"ok\": true}"
    THEN Returned([type |-> "dict", v |-> "ok:True"])
    ELSE Raised(Exc("JSONDecodeError", "Expecting value: line 1 column 1 (char 0)"))

\* await page.goto(WEBHOOK_URL), main.py:138: the navigation commits, or
\* goto raises; it raises whenever the target is unreachable.
GotoOutcomes(up) ==
    IF up THEN {Returned("Response"), Raised(Exc("TimeoutError", "Timeout 30000ms exceeded"))}
    ELSE {Raised(Exc("Error", "net::ERR_CONNECTION_REFUSED"))}

\* What happens to the script of main.py:145-167 in the page: the page
\* cannot run it to its end (closed or crashed page, execution context
\* destroyed by a navigation), or its fetch is rejected, or its fetch is
\* answered.  An unreachable target answers nothing.
ScriptRuns(up) ==
    {[kind |-> "destroyed"], [kind |-> "rejected"]}
    \cup (IF up THEN {[kind |-> "response", response |-> t] : t \in TargetResponses}
          ELSE {})

\* The promise chain of main.py:146-166, given how the fetch ended.
InPageScript(run) ==
    IF run.kind = "rejected"
    THEN [status |-> 0, statusText |-> "Network Error", error |-> "Failed to fetch"]
    ELSE LET j == ResponseJson(run.response.content) IN
         [status |-> run.response.status,
          statusText |-> StatusText(run.response.status),
          data |-> IF j.raised THEN JNull ELSE j.value]

\* await page.evaluate(script, payload_json), main.py:144-169.
PageEvaluate(run) ==
    IF run.kind = "destroyed"
    THEN Raised(Exc("Error", "Execution context was destroyed"))
    ELSE Returned(InPageScript(run))

\* await client.post(WEBHOOK_URL, json=payload, ...), main.py:192-197.
\* It raises whenever the target is unreachable.
PostOutcomes(up) ==
    IF up
    THEN {Raised(Exc("ReadTimeout", "The read operation timed out"))}
         \cup {Returned(t) : t \in TargetResponses}
    ELSE {Raised(Exc("ConnectError", "All connection attempts failed"))}

(***************************************************************************)
(* POST /webhook: receive_webhook and forward_via_browser, main.py:92-179. *)
(***************************************************************************)

\* main.py:173-179, the dictionary forward_via_browser returns from its
\* except clause.
BrowserErrorResultAsNetwork(exc) ==
    [status |-> 0, statusText |-> "Network Error", error |-> exc.msg]
BrowserErrorResult(exc) ==
    [status |-> 500, statusText |-> "Browser Error", error |-> exc.msg]

\* main.py:173-179, `except Exception as e:` of forward_via_browser: the
\* exception is logged and turned into a returned result.
ForwardViaBrowserReraise(exc) == Raised(exc)
ForwardViaBrowserExcept(exc) == Returned(BrowserErrorResult(exc))

\* main.py:99-104, the try block of receive_webhook up to the call of
\* forward_via_browser: the payload, or the exception raised.
WebhookPayload(b) ==
    LET j == RequestJson(b) IN
    IF j.raised THEN j
    ELSE IF ~IsDict(j.value)
         THEN Raised(HTTPException(400, "Payload harus berupa JSON object"))
         ELSE j

\* main.py:123-128, the except clauses of receive_webhook, in their order:
\* the HTTPException the handler ends with.
ReceiveWebhookExcept(exc) ==
    IF exc.type = "JSONDecodeError"
    THEN HTTPException(400, "Invalid JSON payload")
    ELSE HTTPException(500, exc.msg)

\* main.py:110-121, receive_webhook from the return of forward_via_browser
\* on: the response sent.
WebhookResponse(fwd) ==
    IF fwd.raised
    THEN ErrorResponse(ReceiveWebhookExcept(fwd.exc))
    ELSE [http |-> 200,
          message |-> "Webhook processed successfully",
          forwarded_to |-> WEBHOOK_URL,
          result |-> fwd.value]

NoTarget == [status |-> 0, content |-> ""]

\* What a handler has done so far: its calls of page.goto, page.evaluate
\* and client.post; whether the target was reachable when it navigated;
\* whose navigation the page showed when its script ran; which browser
\* call raised; the message of the exception client.post raised; the
\* response client.post returned.
NoHist == [gotos |-> 0, evals |-> 0, posts |-> 0,
           gotoUp |-> "-", evalOn |-> 0, browserRaised |-> "-",
           postExc |-> "-", target |-> NoTarget]

UpDown(up) == IF up THEN "up" ELSE "down"

\* A request arrives.  Requests are served only between the startup and the
\* shutdown of the lifespan, that is while it is suspended at its yield.
Receive(r) ==
    /\ lspc = "yield"
    /\ pc[r] = "idle"
    /\ \E e \in {"webhook", "direct"}, b \in Bodies :
        /\ ep' = [ep EXCEPT ![r] = e]
        /\ body' = [body EXCEPT ![r] = b]
    /\ pc' = [pc EXCEPT ![r] = "json"]
    /\ UNCHANGED <<lifeVars, pageNavBy, hist, resp>>

\* main.py:97-110 and 123-128: request.json() returns or raises, the payload
\* is validated, and forward_via_browser starts and awaits page.goto.
WebhookParse(r) ==
    /\ pc[r] = "json"
    /\ ep[r] = "webhook"
    /\ LET p == WebhookPayload(body[r]) IN
       IF p.raised
       THEN /\ resp' = [resp EXCEPT ![r] = WebhookResponse(p)]
            /\ pc' = [pc EXCEPT ![r] = "done"]
       ELSE /\ pc' = [pc EXCEPT ![r] = "goto"]
            /\ UNCHANGED resp
    /\ UNCHANGED <<lifeVars, pageNavBy, ep, body, hist>>

\* No lock, queue or flag is consulted before page.goto (main.py:136-138).
GotoEnabledLocked(r) ==
    /\ pc[r] = "goto"
    /\ \A o \in Requests \ {r} : pc[o] # "evaluate"
GotoEnabled(r) == pc[r] = "goto"

\* main.py:138: page.goto(WEBHOOK_URL) ends.  On a return the shared page
\* shows this request's navigation and the handler goes on to await
\* page.evaluate; on a raise forward_via_browser returns from its except
\* clause and receive_webhook responds.
WebhookGoto(r) ==
    /\ GotoEnabled(r)
    /\ \E up \in BOOLEAN :
       \E g \in (IF page = "None"
                 THEN {Raised(Exc("AttributeError", "'NoneType' object has no attribute 'goto'"))}
                 ELSE GotoOutcomes(up)) :
        /\ hist' = [hist EXCEPT ![r].gotos = @ + 1, ![r].gotoUp = UpDown(up),
                                ![r].browserRaised = IF g.raised THEN "goto" ELSE @]
        /\ IF g.raised
           THEN /\ resp' = [resp EXCEPT ![r] = WebhookResponse(ForwardViaBrowserExcept(g.exc))]
                /\ pc' = [pc EXCEPT ![r] = "done"]
                /\ UNCHANGED pageNavBy
           ELSE /\ pageNavBy' = r
                /\ pc' = [pc EXCEPT ![r] = "evaluate"]
                /\ UNCHANGED resp
    /\ UNCHANGED <<lifeVars, ep, body>>

\* main.py:141-171 and 110-121: the script runs in the shared page as it is
\* now, page.evaluate returns or raises, forward_via_browser returns and
\* receive_webhook responds.
WebhookEvaluate(r) ==
    /\ pc[r] = "evaluate"
    /\ \E up \in BOOLEAN :
       \E run \in ScriptRuns(up) :
        LET e == PageEvaluate(run) IN
        /\ hist' = [hist EXCEPT ![r].evals = @ + 1, ![r].evalOn = pageNavBy,
                                ![r].browserRaised = IF e.raised THEN "evaluate" ELSE @]
        /\ resp' = [resp EXCEPT ![r] =
                      WebhookResponse(IF e.raised THEN ForwardViaBrowserExcept(e.exc)
                                      ELSE e)]
    /\ pc' = [pc EXCEPT ![r] = "done"]
    /\ UNCHANGED <<lifeVars, pageNavBy, ep, body>>

(***************************************************************************)
(* POST /webhook/direct: receive_webhook_direct, main.py:181-213.          *)
(***************************************************************************)

\* main.py:211-213, the except clause of receive_webhook_direct.
DirectExceptAsSuccess(exc) ==
    [type |-> "HTTPException", status_code |-> 200, detail |-> exc.msg, msg |-> exc.msg]
DirectExcept(exc) == HTTPException(500, exc.msg)

\* main.py:199-209: the response built from the target's response;
\* response.json() is called when response.content is not empty.
DirectResponse(response) ==
    LET j == IF response.content # "" THEN ResponseJson(response.content)
             ELSE Returned(JNull) IN
    IF j.raised
    THEN ErrorResponse(DirectExcept(j.exc))
    ELSE [http |-> 200,
          message |-> "Webhook processed successfully via direct HTTP",
          forwarded_to |-> WEBHOOK_URL,
          status_code |-> response.status,
          response |-> j.value]

\* main.py:187-193: request.json() returns or raises; on a return the
\* handler opens a client and awaits client.post.
DirectParse(r) ==
    /\ pc[r] = "json"
    /\ ep[r] = "direct"
    /\ LET j == RequestJson(body[r]) IN
       IF j.raised
       THEN /\ resp' = [resp EXCEPT ![r] = ErrorResponse(DirectExcept(j.exc))]
            /\ pc' = [pc EXCEPT ![r] = "done"]
       ELSE /\ pc' = [pc EXCEPT ![r] = "post"]
            /\ UNCHANGED resp
    /\ UNCHANGED <<lifeVars, pageNavBy, ep, body, hist>>

\* main.py:193-213: the outbound POST ends, and the handler responds.
DirectPost(r) ==
    /\ pc[r] = "post"
    /\ \E up \in BOOLEAN :
       \E o \in PostOutcomes(up) :
        /\ hist' = [hist EXCEPT ![r].posts = @ + 1,
                                ![r].postExc = IF o.raised THEN o.exc.msg ELSE @,
                                ![r].target = IF o.raised THEN @ ELSE o.value]
        /\ resp' = [resp EXCEPT ![r] =
                      IF o.raised THEN ErrorResponse(DirectExcept(o.exc))
                      ELSE DirectResponse(o.value)]
    /\ pc' = [pc EXCEPT ![r] = "done"]
    /\ UNCHANGED <<lifeVars, pageNavBy, ep, body>>

Init ==
    /\ lspc = "start"
    /\ playwright = "unbound"
    /\ browser = "None"
    /\ page = "None"
    /\ startCalls = 0
    /\ launchCalls = 0
    /\ closeCalls = 0
    /\ stopCalls = 0
    /\ startupFailed = FALSE
    /\ lifespanRaised = FALSE
    /\ everReady = FALSE
    /\ pageNavBy = 0
    /\ pc = [r \in Requests |-> "idle"]
    /\ ep = [r \in Requests |-> ""]
    /\ body = [r \in Requests |-> ""]
    /\ hist = [r \in Requests |-> NoHist]
    /\ resp = [r \in Requests |-> NoResp]

Next ==
    \/ Lifespan
    \/ \E r \in Requests : Receive(r)
    \/ \E r \in Requests : WebhookParse(r)
    \/ \E r \in Requests : WebhookGoto(r)
    \/ \E r \in Requests : WebhookEvaluate(r)
    \/ \E r \in Requests : DirectParse(r)
    \/ \E r \in Requests : DirectPost(r)

Spec == Init /\ [][Next]_vars

(***************************************************************************)
(* Properties.                                                             *)
(***************************************************************************)

JsonObjectBodies    == {"{\"a\": 1}"}
NonObjectJsonBodies == {"42", "\"text\"", "[1, 2]", "null", "true"}
InvalidJsonBodies   == {"{invalid", "{\"a\": \"\\xff\"}"}

Done(r, e) == pc[r] = "done" /\ ep[r] = e

C2_NonObject400 ==
    \A r \in Requests :
        Done(r, "webhook") /\ body[r] \in NonObjectJsonBodies =>
            /\ resp[r].http = 400
            /\ hist[r].gotos = 0
            /\ hist[r].evals = 0

\* C3 as stated: with the target unreachable, POST /webhook with an object
\* body is answered 200 with result.status = 0 and result.statusText =
\* "Network Error".
C3_UnreachableIsNetworkError ==
    \A r \in Requests :
        Done(r, "webhook") /\ body[r] \in JsonObjectBodies
          /\ hist[r].gotoUp = "down" =>
            /\ resp[r].http = 200
            /\ resp[r].result.status = 0
            /\ resp[r].result.statusText = "Network Error"

\* C3 amended: with the target unreachable when forward_via_browser
\* navigates to it, POST /webhook with an object body is answered 200 with
\* result.status = 500 and result.statusText = "Browser Error", and the
\* script is never evaluated; the result {status: 0, statusText: "Network
\* Error"} is given only when the navigation returned and the script ran.
C3_UnreachableIsBrowserError ==
    \A r \in Requests :
        Done(r, "webhook") /\ body[r] \in JsonObjectBodies =>
            /\ hist[r].gotoUp = "down" =>
                  /\ resp[r].http = 200
                  /\ resp[r].result.status = 500
                  /\ resp[r].result.statusText = "Browser Error"
                  /\ hist[r].evals = 0
            /\ resp[r].result.statusText = "Network Error" =>
                  /\ resp[r].result.status = 0
                  /\ hist[r].gotoUp = "up"
                  /\ hist[r].browserRaised = "-"
                  /\ hist[r].evals = 1

\* C3 witness: a request with an object body that navigated while the
\* target was unreachable has been answered.
C3_Witness ==
    \E r \in Requests :
        /\ Done(r, "webhook")
        /\ body[r] \in JsonObjectBodies
        /\ hist[r].gotoUp = "down"

\* C4: POST /webhook/direct with a body that is not valid JSON, or is JSON
\* but not an object, is answered 400 and no outbound POST is made for it.
C4_DirectValidates ==
    \A r \in Requests :
        Done(r, "direct") /\ body[r] \in NonObjectJsonBodies \cup InvalidJsonBodies =>
            /\ resp[r].http = 400
            /\ hist[r].posts = 0

\* C5: when the lifespan has ended, the driver has been stopped if it was
\* started and the browser has been closed exactly once if it was launched,
\* whichever startup step failed and whatever browser.close() did.
C5_CleanupDone ==
    lspc = "done" =>
        /\ startCalls = 1 => stopCalls = 1
        /\ launchCalls = 1 => closeCalls = 1

\* C6: the lifespan yields only after start(), launch() and new_page() have
\* all returned; when one of them raises, the lifespan ends by raising and
\* never yields; and no request is handled while browser or page is None.
C6_ReadyOnlyAfterStartup ==
    /\ everReady =>
          /\ startCalls = 1 /\ launchCalls = 1
          /\ playwright # "unbound" /\ browser # "None" /\ page # "None"
          /\ ~startupFailed
    /\ lspc = "yield" => everReady
    /\ startupFailed => ~everReady /\ lspc # "yield"
    /\ startupFailed /\ lspc = "done" => lifespanRaised
    /\ lspc \in {"launch", "newpage"} => ~startupFailed
    /\ \A r \in Requests :
          pc[r] # "idle" => everReady /\ browser # "None" /\ page # "None"

\* C6 witness: new_page() raised after start() and launch() returned, and
\* the lifespan has ended.
C6_Witness ==
    /\ lspc = "done"
    /\ startupFailed
    /\ launchCalls = 1
    /\ page = "None"

\* C7: POST /webhook with a body that is not valid JSON is answered 400 and
\* its handler neither navigates nor evaluates the shared page.
C7_InvalidJson400 ==
    \A r \in Requests :
        Done(r, "webhook") /\ body[r] \in InvalidJsonBodies =>
            /\ resp[r].http = 400
            /\ hist[r].gotos = 0
            /\ hist[r].evals = 0

\* C8: when the outbound POST of /webhook/direct raises, the request is
\* answered 500 with the message of that exception as detail, and exactly
\* one outbound POST was attempted; no handler attempts more than one.
C8_DirectPropagates ==
    \A r \in Requests :
        /\ hist[r].posts <= 1
        /\ Done(r, "direct") /\ hist[r].postExc # "-" =>
              /\ resp[r].http = 500
              /\ resp[r].detail = hist[r].postExc
              /\ hist[r].posts = 1

\* C8 witness: a /webhook/direct request whose outbound POST raised has been
\* answered.
C8_Witness ==
    \E r \in Requests :
        /\ Done(r, "direct")
        /\ hist[r].postExc = "All connection attempts failed"

\* C9: nothing serializes the use of the shared page: whenever a request has
\* navigated and not yet evaluated, the navigation of any other request that
\* is about to navigate can take place.
C9_NoSerialization ==
    \A a, b \in Requests :
        a # b /\ pc[a] = "evaluate" /\ pc[b] = "goto" => ENABLED WebhookGoto(b)

\* C9 witness: request a navigated, request b navigated after it, and a's
\* script then ran in the page that showed b's navigation.
C9_Witness ==
    \E a, b \in Requests :
        /\ a # b
        /\ pc[a] = "done"
        /\ hist[a].gotos = 1 /\ hist[a].evals = 1
        /\ hist[a].evalOn = b

\* C10: when the outbound POST of /webhook/direct returns a response, the
\* request is answered 200 with status_code the target's status code and
\* response the parsed body, or null for an empty body.
C10_DirectResponse200 ==
    \A r \in Requests :
        Done(r, "direct") /\ hist[r].posts = 1 /\ hist[r].postExc = "-" =>
            /\ resp[r].http = 200
            /\ resp[r].status_code = hist[r].target.status
            /\ resp[r].response = IF hist[r].target.content = "" THEN JNull
                                  ELSE ResponseJson(hist[r].target.content).value

====
